---------------------------- MODULE Spec2Model ----------------------------
(***************************************************************************)
(* Model of FinanceApp (src/main.py): the in-memory transaction list, the  *)
(* backing JSON file, the search view and the handlers that the Qt event   *)
(* loop runs: the 5-second reload timer, the form, search and remove.      *)
(*                                                                         *)
(* Strings are sequences of one-character strings.  Amounts are floats     *)
(* with an integral value n, held as the integer n; str() renders them     *)
(* "n.0" as Python does.  The float nan is held as the code NaN, an        *)
(* integer below every amount and every balance that the input sets can    *)
(* produce, and the Float* operators give Python's arithmetic and          *)
(* comparisons on it.  List indices are 0-based as in the source.          *)
(*                                                                         *)
(* A QMessageBox static call runs a nested event loop: while the box is    *)
(* open the handler that opened it is suspended (pc # "idle"), the box is  *)
(* application-modal so no button of the application can be clicked, but   *)
(* the QTimer still fires and its slot runs to completion.                 *)
(***************************************************************************)
EXTENDS Integers, Sequences, FiniteSets, TLC

VARIABLES
    transactions,            \* self.transactions
    filtered_transactions,   \* self.filtered_transactions
    data_file,               \* the file named by self.data_file
    balance,                 \* self.balance
    editing_index,           \* self.editing_index
    form_type,               \* self.form_type
    form_visible,            \* self.form_popup is shown
    search_text,             \* self.search_input.text()
    displayed,               \* the list whose rows (TransactionItem.index) are on screen
    pc,                      \* "idle", or the message box a suspended handler has open
    call,                    \* history: the suspended handler's entry state and effect
    last,                    \* history: the last user-triggered handler that returned
    opened                   \* history: the record show_form loaded into the form on screen

vars == <<transactions, filtered_transactions, data_file, balance, editing_index,
          form_type, form_visible, search_text, displayed, pc, call, last, opened>>

(***************************************************************************)
(* Bounds and input sets                                                   *)
(***************************************************************************)
MaxTx == 2

None == -1

Str_Rent == <<"R", "e", "n", "t">>
Str_Tea == <<"T", "e", "a">>
Str_rent == <<"r", "e", "n", "t">>
Date1 == <<"0", "1">>
Date2 == <<"0", "2">>

\* Contents of the form (name_input, amount_input, desc_input, date_input) at submit.
ValidForms ==
    { [name |-> <<" ", "R", "e", "n", "t">>, amount |-> <<" ", "5", "2">>, desc |-> <<" ">>, datetime |-> Date1] }

InvalidForms ==
    { [name |-> <<" ">>, amount |-> <<"5", "2">>, desc |-> <<>>, datetime |-> Date1],
      [name |-> Str_Rent, amount |-> <<" ">>, desc |-> <<>>, datetime |-> Date1],
      [name |-> Str_Rent, amount |-> <<"x">>, desc |-> <<>>, datetime |-> Date1],
      [name |-> Str_Rent, amount |-> <<"0">>, desc |-> <<>>, datetime |-> Date1],
      [name |-> Str_Rent, amount |-> <<"-", "5">>, desc |-> <<>>, datetime |-> Date1] }

FormInputs == ValidForms \cup InvalidForms

\* The same with the amount text "nan", which float() accepts.
NanForms ==
    { [name |-> Str_Rent, amount |-> <<"n", "a", "n">>, desc |-> <<>>, datetime |-> Date1] }

\* Texts the user puts in the search box.
SearchTexts ==
    { <<>>, <<" ">>, <<" ", "R", "E", "N">>, <<"5", "2">>, Date2 }

\* Contents of the backing file when the program starts.
InitFiles ==
    { [st |-> "absent", txs |-> <<>>],
      [st |-> "corrupt", txs |-> <<>>],
      [st |-> "ok",
       txs |-> << [name |-> Str_Rent, amount |-> 52, description |-> <<>>,
                   type |-> "receive", datetime |-> Date1],
                  [name |-> Str_Tea, amount |-> 3, description |-> Str_rent,
                   type |-> "send", datetime |-> Date2] >>] }

(***************************************************************************)
(* Python string operations                                                *)
(***************************************************************************)
LowerChar(c) ==
    CASE c = "R" -> "r"
      [] c = "E" -> "e"
      [] c = "N" -> "n"
      [] c = "T" -> "t"
      [] OTHER -> c

Lower(s) == [i \in 1..Len(s) |-> LowerChar(s[i])]

RECURSIVE LStrip(_)
LStrip(s) == IF s # <<>> /\ Head(s) = " " THEN LStrip(Tail(s)) ELSE s

RECURSIVE RStrip(_)
RStrip(s) == IF s # <<>> /\ s[Len(s)] = " " THEN RStrip(SubSeq(s, 1, Len(s) - 1)) ELSE s

Strip(s) == RStrip(LStrip(s))

\* Python `sub in s`
Contains(sub, s) ==
    \E i \in 0..(Len(s) - Len(sub)) : SubSeq(s, i + 1, i + Len(sub)) = sub

Digits == <<"0", "1", "2", "3", "4", "5", "6", "7", "8", "9">>

IsDigit(c) == \E d \in 1..10 : Digits[d] = c

DigitValue(c) == (CHOOSE d \in 1..10 : Digits[d] = c) - 1

RECURSIVE ParseDigits(_, _)
ParseDigits(s, acc) ==
    IF s = <<>> THEN acc ELSE ParseDigits(Tail(s), 10 * acc + DigitValue(Head(s)))

\* the float nan
NaN == -1000000

\* Python's a <= b, a == b, a + b and a - b on floats
FloatLe(a, b) == a # NaN /\ b # NaN /\ a <= b

FloatEq(a, b) == a # NaN /\ b # NaN /\ a = b

FloatAdd(a, b) == IF a = NaN \/ b = NaN THEN NaN ELSE a + b

FloatSub(a, b) == IF a = NaN \/ b = NaN THEN NaN ELSE a - b

\* float(text): [ok, value]; ok = FALSE is ValueError.  float() returns nan for the
\* text "nan" in any letter case, with or without a sign.
ParseFloat(text) ==
    LET body == IF text # <<>> /\ Head(text) = "-" THEN Tail(text) ELSE text
        neg == text # <<>> /\ Head(text) = "-"
    IN  IF Lower(body) = <<"n", "a", "n">>
        THEN [ok |-> TRUE, value |-> NaN]
        ELSE IF body = <<>> \/ \E i \in 1..Len(body) : ~IsDigit(body[i])
        THEN [ok |-> FALSE, value |-> 0]
        ELSE [ok |-> TRUE,
              value |-> IF neg THEN 0 - ParseDigits(body, 0) ELSE ParseDigits(body, 0)]

RECURSIVE NatStr(_)
NatStr(n) == IF n < 10 THEN <<Digits[n + 1]>> ELSE Append(NatStr(n \div 10), Digits[(n % 10) + 1])

\* str(amount) of a float with an integral value
PyStr(n) ==
    IF n = NaN THEN <<"n", "a", "n">>
    ELSE (IF n < 0 THEN <<"-">> ELSE <<>>) \o NatStr(IF n < 0 THEN 0 - n ELSE n) \o <<".", "0">>

(***************************************************************************)
(* File operations                                                         *)
(***************************************************************************)
\* json.dump(self.transactions, f, indent=4): an array of objects, one per dict
json_dump(txs) ==
    [i \in 1..Len(txs) |->
        [name |-> txs[i].name, amount |-> txs[i].amount,
         description |-> txs[i].description, type |-> txs[i].type,
         datetime |-> txs[i].datetime]]

\* json.load(f)
json_load(content) ==
    [i \in 1..Len(content) |->
        [name |-> content[i].name, amount |-> content[i].amount,
         description |-> content[i].description, type |-> content[i].type,
         datetime |-> content[i].datetime]]

\* load_transactions: the new value of self.transactions
load_transactions(f) ==
    CASE f.st = "ok" -> json_load(f.txs)
      [] f.st = "absent" -> <<>>
      [] OTHER -> <<>>

\* save_transactions: the file after the call; outcome is "ok", "denied" (open
\* fails, file untouched) or "partial" (the write fails after open truncated it)
save_transactions(txs, f, outcome) ==
    CASE outcome = "ok" -> [st |-> "ok", txs |-> json_dump(txs)]
      [] outcome = "denied" -> f
      [] OTHER -> [st |-> "corrupt", txs |-> <<>>]

SaveOutcomes == {"ok", "denied", "partial"}

(***************************************************************************)
(* Balance, search, index resolution                                       *)
(***************************************************************************)
RECURSIVE BalanceLoop(_, _)
BalanceLoop(txs, acc) ==
    IF txs = <<>> THEN acc
    ELSE BalanceLoop(Tail(txs),
                     IF Head(txs).type = "receive" THEN FloatAdd(acc, Head(txs).amount)
                     ELSE FloatSub(acc, Head(txs).amount))

update_balance_ui(txs) == BalanceLoop(txs, 0)

\* Mutant: the name is compared without lower-casing it.
tx_matches_case_sensitive_name(search_query, tx) ==
    \/ Contains(search_query, tx.name)
    \/ Contains(search_query, Lower(tx.description))
    \/ Contains(search_query, Lower(PyStr(tx.amount)))
    \/ Contains(search_query, Lower(tx.datetime))

tx_matches(search_query, tx) ==
    \/ Contains(search_query, Lower(tx.name))
    \/ Contains(search_query, Lower(tx.description))
    \/ Contains(search_query, Lower(PyStr(tx.amount)))
    \/ Contains(search_query, Lower(tx.datetime))

RECURSIVE FilterLoop(_, _, _)
FilterLoop(txs, search_query, acc) ==
    IF txs = <<>> THEN acc
    ELSE FilterLoop(Tail(txs), search_query,
                    IF tx_matches(search_query, Head(txs)) THEN Append(acc, Head(txs)) ELSE acc)

search_query_of(text) == Lower(Strip(text))

QueryActive(text) == Strip(text) # <<>>

\* Mutant: the scan keeps the last matching index instead of returning the first.
FindLoop_last_match(txs, filtered_tx, i) ==
    LET M == {j \in i..(Len(txs) - 1) :
                /\ txs[j + 1].name = filtered_tx.name
                /\ FloatEq(txs[j + 1].amount, filtered_tx.amount)
                /\ txs[j + 1].datetime = filtered_tx.datetime}
    IN  IF M = {} THEN -1 ELSE CHOOSE j \in M : \A k \in M : k <= j

RECURSIVE FindLoop(_, _, _)
FindLoop(txs, filtered_tx, i) ==
    IF i >= Len(txs) THEN -1
    ELSE IF /\ txs[i + 1].name = filtered_tx.name
            /\ FloatEq(txs[i + 1].amount, filtered_tx.amount)
            /\ txs[i + 1].datetime = filtered_tx.datetime
         THEN i
         ELSE FindLoop(txs, filtered_tx, i + 1)

get_original_index(txs, filtered, filtered_index) ==
    IF filtered_index < 0 \/ filtered_index >= Len(filtered) THEN -1
    ELSE FindLoop(txs, filtered[filtered_index + 1], 0)


(***************************************************************************)
(* Handlers                                                                *)
(***************************************************************************)
NoCall == [op |-> "none"]

\* last is reset by every user action that is not a submit or a remove
NoLast == [op |-> "none", saved |-> "none"]

InRange(i, txs) == 0 <= i /\ i < Len(txs)

\* the list _load_and_display_transactions hands to display_transactions
ListToDisplay(txs, filtered, text) == IF ~QueryActive(text) THEN txs ELSE filtered

\* Mutant: the balance is folded over the rows being displayed.
display_transactions_balance_of_view(txs, transactions_to_display) ==
    [displayed |-> transactions_to_display,
     balance |-> update_balance_ui(transactions_to_display)]

\* display_transactions(transactions_to_display) with self.transactions = txs: the
\* rows put on screen, and the balance update_balance_ui stores
display_transactions(txs, transactions_to_display) ==
    [displayed |-> transactions_to_display, balance |-> update_balance_ui(txs)]

Init ==
    /\ data_file \in InitFiles
    /\ transactions = load_transactions(data_file)
    /\ filtered_transactions = <<>>
    /\ balance = display_transactions(transactions, transactions).balance
    /\ editing_index = None
    /\ form_type = "None"
    /\ form_visible = FALSE
    /\ search_text = <<>>
    /\ displayed = ListToDisplay(transactions, filtered_transactions, search_text)
    /\ pc = "idle"
    /\ call = NoCall
    /\ last = NoLast
    /\ opened = <<>>

\* QTimer timeout -> _load_and_display_transactions.  It also runs inside the
\* nested event loop of an open message box.  The decode-error box of
\* load_transactions is dismissed within the step: a tick nested in it repeats the
\* same load of the same file.
Tick ==
    /\ transactions' = load_transactions(data_file)
    /\ LET d == display_transactions(transactions',
                                     ListToDisplay(transactions', filtered_transactions,
                                                   search_text))
       IN  displayed' = d.displayed /\ balance' = d.balance
    /\ call' = IF pc \in {"updated", "added"} THEN [call EXCEPT !.ticked = TRUE] ELSE call
    /\ UNCHANGED <<filtered_transactions, data_file, editing_index, form_type,
                   form_visible, search_text, pc, last, opened>>

\* show_form(transaction_type, None): the Receive Money / Send Money buttons
ShowFormAdd(transaction_type) ==
    /\ pc = "idle"
    /\ form_type' = transaction_type
    /\ editing_index' = None
    /\ form_visible' = TRUE
    /\ last' = NoLast
    /\ opened' = <<>>
    /\ UNCHANGED <<transactions, filtered_transactions, data_file, balance,
                   search_text, displayed, pc, call>>

\* show_form, lines 427-467: the record whose values are put into the form's
\* fields, as a sequence of length 1; empty when the index does not resolve and the
\* fields stay cleared
transaction_to_edit(txs, filtered, text, index_to_edit) ==
    LET original_index == IF QueryActive(text)
                          THEN get_original_index(txs, filtered, index_to_edit)
                          ELSE index_to_edit
    IN  IF InRange(original_index, txs) THEN <<txs[original_index + 1]>> ELSE <<>>

\* show_form(None, idx): the Edit button of row idx of the displayed list
ShowFormEdit(index_to_edit) ==
    /\ pc = "idle"
    /\ InRange(index_to_edit, displayed)
    /\ form_type' = "None"
    /\ editing_index' = index_to_edit
    /\ form_visible' = TRUE
    /\ last' = NoLast
    /\ opened' = transaction_to_edit(transactions, filtered_transactions, search_text,
                                     index_to_edit)
    /\ UNCHANGED <<transactions, filtered_transactions, data_file, balance,
                   search_text, displayed, pc, call>>

\* the form's Cancel button: form_popup.hide
CancelForm ==
    /\ pc = "idle"
    /\ form_visible
    /\ form_visible' = FALSE
    /\ last' = NoLast
    /\ opened' = <<>>
    /\ UNCHANGED <<transactions, filtered_transactions, data_file, balance,
                   editing_index, form_type, search_text, displayed, pc, call>>

\* Mutant: the amount test is "< 0", so an amount of 0 passes.
Validate_accepts_zero(f) ==
    LET name == Strip(f.name)
        amount_text == Strip(f.amount)
        amount == ParseFloat(amount_text)
    IN  IF name = <<>> THEN "Name cannot be empty."
        ELSE IF amount_text = <<>> THEN "Amount cannot be empty."
        ELSE IF ~amount.ok THEN "Invalid amount format."
        ELSE IF amount.value # NaN /\ amount.value < 0 THEN "Amount must be positive."
        ELSE "ok"

\* submit_transaction, lines 484-504: the reason the input is rejected, or "ok"
Validate(f) ==
    LET name == Strip(f.name)
        amount_text == Strip(f.amount)
        amount == ParseFloat(amount_text)
    IN  IF name = <<>> THEN "Name cannot be empty."
        ELSE IF amount_text = <<>> THEN "Amount cannot be empty."
        ELSE IF ~amount.ok THEN "Invalid amount format."
        ELSE IF FloatLe(amount.value, 0) THEN "Amount must be positive."
        ELSE "ok"

\* Mutant: the type is read at editing_index without resolving it through the view.
ResolveType_ignores_query ==
    IF form_type # "None" THEN form_type
    ELSE IF editing_index # None /\ InRange(editing_index, transactions)
         THEN transactions[editing_index + 1].type
    ELSE "receive"

\* submit_transaction, lines 510-514: the "type" of transaction_data
ResolveType ==
    IF form_type # "None" THEN form_type
    ELSE IF /\ QueryActive(search_text)
            /\ editing_index # None
            /\ InRange(get_original_index(transactions, filtered_transactions, editing_index),
                       transactions)
         THEN transactions[get_original_index(transactions, filtered_transactions,
                                              editing_index) + 1].type
    ELSE IF editing_index # None /\ InRange(editing_index, transactions)
         THEN transactions[editing_index + 1].type
    ELSE "receive"

\* submit_transaction, lines 506-516
transaction_data(f) ==
    [name |-> Strip(f.name),
     amount |-> ParseFloat(Strip(f.amount)).value,
     description |-> Strip(f.desc),
     type |-> ResolveType,
     datetime |-> f.datetime]

\* submit_transaction, lines 520-526: the canonical index an edit writes to
EditTarget(txs, filtered, text, index) ==
    IF QueryActive(text) THEN get_original_index(txs, filtered, index) ELSE index

\* Mutant: the index is resolved through the view even when no query is active.
RemoveTarget_always_resolves(txs, filtered, text, index) ==
    get_original_index(txs, filtered, index)

\* remove_transaction, lines 557-563: the canonical index a remove deletes
RemoveTarget(txs, filtered, text, index) ==
    IF QueryActive(text) THEN get_original_index(txs, filtered, index) ELSE index

ReplaceAt(txs, i, tx) == IF InRange(i, txs) THEN [txs EXCEPT ![i + 1] = tx] ELSE txs

\* Mutant: the deletion drops position i and everything after it.
DeleteAt_truncates(txs, i) == IF InRange(i, txs) THEN SubSeq(txs, 1, i) ELSE txs

DeleteAt(txs, i) ==
    IF InRange(i, txs) THEN SubSeq(txs, 1, i) \o SubSeq(txs, i + 2, Len(txs)) ELSE txs

Snapshot(op) ==
    [op |-> op, ticked |-> FALSE, pre |-> transactions, pre_file |-> data_file,
     pre_balance |-> balance, pre_editing |-> editing_index,
     query |-> QueryActive(search_text), idx |-> editing_index, target |-> -1,
     tx |-> <<>>, mutated |-> transactions]

\* submit_transaction up to the message box it opens (lines 476-533)
SubmitTransaction(f) ==
    /\ pc = "idle"
    /\ form_visible
    /\ IF Validate(f) # "ok"
       THEN /\ pc' = "warning"
            /\ call' = Snapshot("rejected")
            /\ UNCHANGED <<transactions, editing_index, opened>>
       ELSE IF editing_index # None
       THEN LET target == EditTarget(transactions, filtered_transactions, search_text,
                                     editing_index)
            IN  /\ transactions' = ReplaceAt(transactions, target, transaction_data(f))
                /\ editing_index' = None
                /\ opened' = <<>>
                /\ pc' = "updated"
                /\ call' = [Snapshot("edit") EXCEPT
                              !.target = IF InRange(target, transactions) THEN target ELSE -1,
                              !.tx = transaction_data(f),
                              !.mutated = transactions']
       ELSE /\ Len(transactions) < MaxTx
            /\ transactions' = Append(transactions, transaction_data(f))
            /\ pc' = "added"
            /\ call' = [Snapshot("add") EXCEPT
                          !.target = Len(transactions),
                          !.tx = transaction_data(f),
                          !.mutated = transactions']
            /\ UNCHANGED <<editing_index, opened>>
    /\ UNCHANGED <<filtered_transactions, data_file, balance, form_type, form_visible,
                   search_text, displayed, last>>

\* OK on a validation warning: submit_transaction returns (lines 492, 495, 501, 504)
DismissWarning ==
    /\ pc = "warning"
    /\ pc' = "idle"
    /\ call' = NoCall
    /\ last' = [op |-> "rejected", saved |-> "none"]
    /\ UNCHANGED <<transactions, filtered_transactions, data_file, balance, editing_index,
                   form_type, form_visible, search_text, displayed, opened>>

\* OK on the success box: submit_transaction lines 535-538.  The save-error and
\* decode-error boxes are dismissed within the step: a tick nested in them loads the
\* file that line 536 loads next.
DismissSuccess(outcome) ==
    /\ pc \in {"updated", "added"}
    /\ data_file' = save_transactions(transactions, data_file, outcome)
    /\ transactions' = load_transactions(data_file')
    /\ LET d == display_transactions(transactions',
                                     ListToDisplay(transactions', filtered_transactions,
                                                   search_text))
       IN  displayed' = d.displayed /\ balance' = d.balance
    /\ form_visible' = FALSE
    /\ pc' = "idle"
    /\ call' = NoCall
    /\ last' = [op |-> call.op, saved |-> outcome]
    /\ opened' = <<>>
    /\ UNCHANGED <<filtered_transactions, editing_index, form_type, search_text>>

\* the Remove button of row idx: remove_transaction opens the question box
RemoveClick(index_to_remove) ==
    /\ pc = "idle"
    /\ InRange(index_to_remove, displayed)
    /\ pc' = "question"
    /\ call' = [Snapshot("remove") EXCEPT !.idx = index_to_remove]
    /\ UNCHANGED <<transactions, filtered_transactions, data_file, balance, editing_index,
                   form_type, form_visible, search_text, displayed, last, opened>>

\* No on the question box
RemoveNo ==
    /\ pc = "question"
    /\ pc' = "idle"
    /\ call' = NoCall
    /\ last' = [op |-> "remove_no", saved |-> "none"]
    /\ UNCHANGED <<transactions, filtered_transactions, data_file, balance, editing_index,
                   form_type, form_visible, search_text, displayed, opened>>

\* Yes on the question box: remove_transaction lines 555-566
RemoveYes(outcome) ==
    /\ pc = "question"
    /\ LET target == RemoveTarget(transactions, filtered_transactions, search_text, call.idx)
           after == DeleteAt(transactions, target)
       IN  /\ data_file' = save_transactions(after, data_file, outcome)
           /\ last' = [op |-> "remove", saved |-> outcome]
    /\ transactions' = load_transactions(data_file')
    /\ LET d == display_transactions(transactions',
                                     ListToDisplay(transactions', filtered_transactions,
                                                   search_text))
       IN  displayed' = d.displayed /\ balance' = d.balance
    /\ pc' = "idle"
    /\ call' = NoCall
    /\ UNCHANGED <<filtered_transactions, editing_index, form_type, form_visible, search_text,
                   opened>>

\* search_transactions (lines 609-629): the new filtered_transactions
search_transactions(txs, filtered, text) ==
    IF search_query_of(text) = <<>> THEN filtered
    ELSE FilterLoop(txs, search_query_of(text), <<>>)

\* search_input.textChanged -> search_transactions
SearchChanged(text) ==
    /\ pc = "idle"
    /\ text # search_text
    /\ search_text' = text
    /\ filtered_transactions' = search_transactions(transactions, filtered_transactions, text)
    /\ LET d == display_transactions(transactions,
                                     IF search_query_of(text) = <<>> THEN transactions
                                     ELSE filtered_transactions')
       IN  displayed' = d.displayed /\ balance' = d.balance
    /\ last' = NoLast
    /\ UNCHANGED <<transactions, data_file, editing_index, form_type, form_visible, pc, call,
                   opened>>

\* clear_search (lines 631-634); search_input.clear() emits textChanged when the
\* text was not empty, and search_transactions then sees the empty query
ClearSearch ==
    /\ pc = "idle"
    /\ search_text' = <<>>
    /\ LET d == display_transactions(transactions, transactions)
       IN  displayed' = d.displayed /\ balance' = d.balance
    /\ last' = NoLast
    /\ UNCHANGED <<transactions, filtered_transactions, data_file, editing_index,
                   form_type, form_visible, pc, call, opened>>

Next ==
    \/ Tick
    \/ \E t \in {"receive", "send"} : ShowFormAdd(t)
    \/ \E i \in 0..(MaxTx - 1) : ShowFormEdit(i)
    \/ CancelForm
    \/ \E f \in FormInputs : SubmitTransaction(f)
    \/ DismissWarning
    \/ \E o \in SaveOutcomes : DismissSuccess(o)
    \/ \E i \in 0..(MaxTx - 1) : RemoveClick(i)
    \/ RemoveNo
    \/ \E o \in SaveOutcomes : RemoveYes(o)
    \/ \E q \in SearchTexts : SearchChanged(q)
    \/ ClearSearch

Spec == Init /\ [][Next]_vars

\* The same program with the amount text "nan" among the form inputs.
NextNan ==
    \/ Tick
    \/ \E t \in {"receive", "send"} : ShowFormAdd(t)
    \/ \E i \in 0..(MaxTx - 1) : ShowFormEdit(i)
    \/ CancelForm
    \/ \E f \in FormInputs \cup NanForms : SubmitTransaction(f)
    \/ DismissWarning
    \/ \E o \in SaveOutcomes : DismissSuccess(o)
    \/ \E i \in 0..(MaxTx - 1) : RemoveClick(i)
    \/ RemoveNo
    \/ \E o \in SaveOutcomes : RemoveYes(o)
    \/ \E q \in SearchTexts : SearchChanged(q)
    \/ ClearSearch

SpecNan == Init /\ [][NextNan]_vars

(***************************************************************************)
(* Definitions the properties are stated with                              *)
(***************************************************************************)
Returned(op) == pc # "idle" /\ pc' = "idle" /\ last'.op = op

FileOf(txs) == [st |-> "ok", txs |-> txs]

RECURSIVE SumAmounts(_, _)
SumAmounts(txs, idxs) ==
    IF idxs = {} THEN 0
    ELSE LET i == CHOOSE j \in idxs : TRUE
         IN  txs[i].amount + SumAmounts(txs, idxs \ {i})

ReceiveIndices(txs) == {i \in 1..Len(txs) : txs[i].type = "receive"}

ExpectedBalance(txs) ==
    SumAmounts(txs, ReceiveIndices(txs))
        - SumAmounts(txs, (1..Len(txs)) \ ReceiveIndices(txs))

\* txs without its element at 0-based position i / with it replaced by tx
Without(txs, i) == [j \in 1..(Len(txs) - 1) |-> IF j <= i THEN txs[j] ELSE txs[j + 1]]

WithReplaced(txs, i, tx) == [j \in 1..Len(txs) |-> IF j = i + 1 THEN tx ELSE txs[j]]

(***************************************************************************)
(* C1                                                                      *)
(***************************************************************************)
\* C1: when a valid submit with no edit pending returns (its write having
\* succeeded), the canonical list is the list before the submit with the new
\* transaction appended, and the file holds that list -- whatever timer ticks ran
\* while the handler was in progress.
C1_AddNeverLost ==
    [][(Returned("add") /\ last'.saved = "ok")
          => /\ transactions' = Append(call.pre, call.tx)
             /\ data_file' = FileOf(Append(call.pre, call.tx))]_vars

(***************************************************************************)
(* C2                                                                      *)
(***************************************************************************)
\* C2: whenever no handler is running, the stored balance is the sum of the
\* amounts of the canonical receive transactions minus the sum of the amounts of
\* all other canonical transactions, with or without an active search query.
C2_BalanceInvariant == pc = "idle" => balance = ExpectedBalance(transactions)

\* a query is active, the view hides part of a list holding a receive and a send,
\* and a mutation has just been saved
C2_Witness ==
    /\ pc = "idle"
    /\ QueryActive(search_text)
    /\ last.op \in {"add", "edit", "remove"}
    /\ Len(displayed) < Len(transactions)
    /\ \E i, j \in 1..Len(transactions) :
          transactions[i].type = "receive" /\ transactions[j].type = "send"
    /\ balance = ExpectedBalance(transactions)

(***************************************************************************)
(* C3                                                                      *)
(***************************************************************************)
\* the rows on screen are the current canonical list filtered by the current query
ViewUpToDate ==
    displayed = SelectSeq(transactions,
                          LAMBDA tx : tx_matches(search_query_of(search_text), tx))

\* C3: while a search query is active, a confirmed remove (or a submitted edit)
\* issued for the row at view position k deletes (replaces) exactly one canonical
\* record, and that record equals the displayed row in all five fields.  Stated
\* here for the views that are in step with the canonical list, where it already
\* fails when two records share name, amount and datetime.
C3_FilteredEditRemoveHitsDisplayedRow ==
    [][/\ (/\ Returned("remove")
           /\ last'.saved = "ok"
           /\ QueryActive(search_text)
           /\ ViewUpToDate
           /\ InRange(call.idx, displayed))
          => \E i \in 0..(Len(transactions) - 1) :
                /\ transactions[i + 1] = displayed[call.idx + 1]
                /\ transactions' = Without(transactions, i)
       /\ (/\ pc = "idle"
           /\ pc' = "updated"
           /\ QueryActive(search_text)
           /\ ViewUpToDate
           /\ InRange(editing_index, displayed))
          => \E i \in 0..(Len(transactions) - 1) :
                /\ transactions[i + 1] = displayed[editing_index + 1]
                /\ transactions' = WithReplaced(transactions, i, call'.tx)]_vars

(***************************************************************************)
(* C4                                                                      *)
(***************************************************************************)
\* C4: after every _load_and_display_transactions that runs with a non-empty
\* search query (a timer tick, or the reload that ends submit_transaction and
\* remove_transaction), the displayed view is the freshly loaded canonical list
\* filtered by the current query.
C4_ViewRebuiltOnReload ==
    [][(/\ \/ Tick
           \/ \E o \in SaveOutcomes : DismissSuccess(o)
           \/ \E o \in SaveOutcomes : RemoveYes(o)
        /\ QueryActive(search_text'))
          => /\ filtered_transactions'
                = SelectSeq(transactions',
                            LAMBDA tx : tx_matches(search_query_of(search_text'), tx))
             /\ displayed' = filtered_transactions']_vars

(***************************************************************************)
(* C5                                                                      *)
(***************************************************************************)
\* C5: if save_transactions fails during an add, edit or remove, then after the
\* handler returns the in-memory list still holds the mutation just applied.
C5_FailedWriteKeepsMemory ==
    [][/\ (/\ Returned("add") \/ Returned("edit")
           /\ last'.saved # "ok"
           /\ ~call.ticked)
          => transactions' = call.mutated
       /\ (Returned("remove") /\ last'.saved # "ok")
          => transactions' = DeleteAt(transactions,
                                      RemoveTarget(transactions, filtered_transactions,
                                                   search_text, call.idx))]_vars

(***************************************************************************)
(* C6                                                                      *)
(***************************************************************************)
OnlySpaces(s) == \A i \in 1..Len(s) : s[i] = " "

\* the claim's rejected inputs: trimmed name empty, amount text empty or not a
\* number, or amount <= 0
RejectedInput(f) ==
    \/ OnlySpaces(f.name)
    \/ OnlySpaces(f.amount)
    \/ ~ParseFloat(Strip(f.amount)).ok
    \/ ParseFloat(Strip(f.amount)).value <= 0

RejectedInputs == {f \in FormInputs : RejectedInput(f)}

\* C6: a submit (add or edit) with such an input is rejected, and when the
\* handler returns the canonical list, the backing file, the balance and the
\* pending editing_index are what they were when it was called.
C6_ValidationFailureChangesNothing ==
    [][/\ (pc = "idle" /\ pc' \in {"warning", "added", "updated"})
             => \A f \in RejectedInputs :
                   SubmitTransaction(f)
                      => /\ pc' = "warning"
                         /\ UNCHANGED <<transactions, data_file, balance, editing_index>>
       /\ (pc = "warning" /\ pc' = "idle")
             => /\ last'.op = "rejected"
                /\ transactions' = call.pre
                /\ data_file' = call.pre_file
                /\ balance' = call.pre_balance
                /\ editing_index' = call.pre_editing]_vars

\* an edit of a stored list has just been rejected and is still pending
C6_Witness ==
    /\ pc = "idle"
    /\ last.op = "rejected"
    /\ editing_index # None
    /\ transactions # <<>>
    /\ data_file = FileOf(transactions)

(***************************************************************************)
(* C7                                                                      *)
(***************************************************************************)
Fold(s) ==
    [i \in 1..Len(s) |->
        IF s[i] = "R" THEN "r" ELSE IF s[i] = "E" THEN "e"
        ELSE IF s[i] = "N" THEN "n" ELSE IF s[i] = "T" THEN "t" ELSE s[i]]

Spaces(n) == [i \in 1..n |-> " "]

Trimmed(s) ==
    CHOOSE t \in {SubSeq(s, i, j) : i \in 1..(Len(s) + 1), j \in 0..Len(s)} :
        /\ t = <<>> \/ (t[1] # " " /\ t[Len(t)] # " ")
        /\ \E a, b \in 0..Len(s) : s = Spaces(a) \o t \o Spaces(b)

IsSubstring(sub, s) == \E a, b \in 0..Len(s) : a + b <= Len(s) /\ SubSeq(s, a + 1, Len(s) - b) = sub

\* the stored amounts as Python renders them
AmountText(n) == IF n = 52 THEN <<"5", "2", ".", "0">> ELSE <<"3", ".", "0">>

\* the trimmed, case-folded query of each search text
FoldedQuery == [text \in SearchTexts |-> Fold(Trimmed(text))]

QueryMatches(text, tx) ==
    \/ IsSubstring(FoldedQuery[text], Fold(tx.name))
    \/ IsSubstring(FoldedQuery[text], Fold(tx.description))
    \/ IsSubstring(FoldedQuery[text], AmountText(tx.amount))
    \/ IsSubstring(FoldedQuery[text], tx.datetime)

\* C7: for a non-empty query, search_transactions leaves in filtered_transactions
\* (and on screen) exactly the canonical transactions that match, in canonical
\* order; matching is case-insensitive: the query " REN" (folded: "ren") keeps every
\* transaction named "Rent".
C7_FilterResult ==
    [][\A text \in SearchTexts :
          (text = search_text' /\ SearchChanged(text) /\ FoldedQuery[text] # <<>>)
             => /\ filtered_transactions'
                   = SelectSeq(transactions, LAMBDA tx : QueryMatches(text, tx))
                /\ displayed' = filtered_transactions'
                /\ FoldedQuery[text] = <<"r", "e", "n">>
                      => \A i \in 1..Len(transactions) :
                            transactions[i].name = Str_Rent
                               => \E j \in 1..Len(filtered_transactions') :
                                     filtered_transactions'[j] = transactions[i]]_vars

\* the query "52" has just selected the one transaction of amount 52.0 out of two
C7_Witness ==
    /\ pc = "idle"
    /\ last = NoLast
    /\ search_text = <<"5", "2">>
    /\ Len(transactions) = 2
    /\ transactions[1].amount = 3
    /\ filtered_transactions = <<transactions[2]>>
    /\ displayed = filtered_transactions

(***************************************************************************)
(* C8                                                                      *)
(***************************************************************************)
\* C8: with an empty or whitespace-only search text the rows on screen are the
\* whole canonical list in canonical order, and an edit or a remove acts on the
\* canonical position equal to the row index, whatever the stale
\* filtered_transactions holds.
C8_EmptyQueryIdentityView ==
    [][/\ (pc' = "idle" /\ OnlySpaces(search_text')) => displayed' = transactions'
       /\ (/\ pc = "idle"
           /\ pc' = "updated"
           /\ OnlySpaces(search_text))
             => transactions' = (IF InRange(editing_index, transactions)
                                 THEN WithReplaced(transactions, editing_index, call'.tx)
                                 ELSE transactions)
       /\ (/\ Returned("remove")
           /\ last'.saved = "ok"
           /\ OnlySpaces(search_text))
             => transactions' = (IF InRange(call.idx, transactions)
                                 THEN Without(transactions, call.idx)
                                 ELSE transactions)]_vars

\* a row has just been removed under a whitespace-only search text while a view of
\* an earlier query is still held
C8_Witness ==
    /\ pc = "idle"
    /\ last = [op |-> "remove", saved |-> "ok"]
    /\ search_text = <<" ">>
    /\ filtered_transactions # <<>>
    /\ transactions # <<>>
    /\ displayed = transactions

(***************************************************************************)
(* C9                                                                      *)
(***************************************************************************)
SameTriple(a, b) == a.name = b.name /\ a.amount = b.amount /\ a.datetime = b.datetime

\* C9: _get_original_index(k) is -1 when k is outside the filtered view or no
\* canonical record equals view[k] on (name, amount, datetime); otherwise it is the
\* smallest canonical index whose record equals view[k] on that triple.
C9_IndexResolution ==
    \A k \in (-1)..(Len(filtered_transactions) + 1) :
        LET r == get_original_index(transactions, filtered_transactions, k)
        IN  IF k < 0 \/ k >= Len(filtered_transactions) THEN r = -1
            ELSE IF \A i \in 1..Len(transactions) :
                        ~SameTriple(transactions[i], filtered_transactions[k + 1])
                 THEN r = -1
                 ELSE /\ 0 <= r /\ r < Len(transactions)
                      /\ SameTriple(transactions[r + 1], filtered_transactions[k + 1])
                      /\ \A i \in 0..(r - 1) :
                            ~SameTriple(transactions[i + 1], filtered_transactions[k + 1])

\* an edit of view row 1 under an active query has been resolved to canonical
\* index 0: rows 0 and 1 of the list share the triple
C9_Witness ==
    /\ pc = "updated"
    /\ call.query
    /\ call.idx = 1
    /\ call.target = 0
    /\ Len(call.pre) = 2
    /\ SameTriple(call.pre[1], call.pre[2])
    /\ call.pre[1] # call.pre[2]

(***************************************************************************)
(* C10                                                                     *)
(***************************************************************************)
\* C10: "Transaction updated successfully!" is shown only when a record of the
\* canonical list was replaced; an edit whose index is unusable is not reported
\* as a success.
C10_UpdateReportedOnlyWhenReplaced == pc = "updated" => call.target # -1

(***************************************************************************)
(* C11                                                                     *)
(***************************************************************************)
\* the canonical index the confirmed remove in progress would delete
PendingRemoveTarget ==
    RemoveTarget(transactions, filtered_transactions, search_text, call.idx)

\* C11: a confirmed remove whose index is out of bounds (no query active), or
\* resolves to NotFound (query active), deletes nothing: when the handler returns,
\* the canonical list and the backing file are what they were when it was called.
C11_OutOfBoundsRemoveChangesNothing ==
    [][(/\ Returned("remove")
        /\ ~InRange(PendingRemoveTarget, transactions))
          => /\ transactions' = call.pre
             /\ data_file' = call.pre_file]_vars

(***************************************************************************)
(* C12                                                                     *)
(***************************************************************************)
\* C12: loading an absent or a malformed file yields the empty list, and a valid
\* add submitted after such a load leaves the canonical list and the backing file
\* equal to the one-element list holding the added transaction.
C12_AddAfterLoadRecovery ==
    [][(/\ Returned("add")
        /\ last'.saved = "ok"
        /\ call.pre_file.st \in {"absent", "corrupt"})
          => /\ load_transactions(call.pre_file) = <<>>
             /\ call.pre = <<>>
             /\ transactions' = <<call.tx>>
             /\ data_file' = FileOf(<<call.tx>>)]_vars

(***************************************************************************)
(* C13                                                                     *)
(***************************************************************************)
\* C13: with a backing file that is absent or holds a list, whenever no handler is
\* in progress the canonical list equals the content of the file; and no reload
\* reads the file between a mutation and its rewrite, so that a timer reload never
\* changes the canonical list.
C13_MemoryAndFileInStep ==
    [][data_file.st # "corrupt"
          => /\ pc = "idle" => transactions = load_transactions(data_file)
             /\ Tick => transactions' = transactions]_vars

(***************************************************************************)
(* C14                                                                     *)
(***************************************************************************)
\* C14: an edit that replaces canonical index i keeps the length of the list and
\* every element at another index; a remove that deletes index i yields the old
\* list without position i, the elements after i moving down by one; an add keeps
\* every existing element at its index.  This holds of the mutation itself and of
\* the list the handler leaves when its write succeeded.
C14_MutationsTouchOnlyTarget ==
    [][/\ (pc = "idle" /\ pc' = "updated" /\ call'.target # -1)
             => /\ Len(transactions') = Len(transactions)
                /\ \A j \in 1..Len(transactions) :
                      j # call'.target + 1 => transactions'[j] = transactions[j]
       /\ (pc = "idle" /\ pc' = "added")
             => /\ Len(transactions') = Len(transactions) + 1
                /\ \A j \in 1..Len(transactions) : transactions'[j] = transactions[j]
       /\ (/\ Returned("remove")
           /\ last'.saved = "ok"
           /\ InRange(PendingRemoveTarget, transactions))
             => /\ Len(transactions') = Len(transactions) - 1
                /\ \A j \in 1..Len(transactions') :
                      transactions'[j]
                         = transactions[IF j <= PendingRemoveTarget THEN j ELSE j + 1]
       /\ (/\ Returned("edit") \/ Returned("add")
           /\ last'.saved = "ok")
             => /\ Len(transactions') >= Len(call.pre)
                /\ \A j \in 1..Len(call.pre) :
                      j # call.target + 1 => transactions'[j] = call.pre[j]]_vars

\* the first of two records has just been removed and the second has moved down
C14_Witness ==
    /\ pc = "idle"
    /\ last = [op |-> "remove", saved |-> "ok"]
    /\ Len(transactions) = 1
    /\ transactions[1].name = Str_Tea
    /\ data_file = FileOf(transactions)

(***************************************************************************)
(* C15                                                                     *)
(***************************************************************************)
\* C15: starting from a backing file that is absent or holds only valid records,
\* every record of the canonical list has an amount > 0, a name that is not empty
\* after trimming, and the type "receive" or "send".
C15_RecordInvariant ==
    (pc = "idle" /\ data_file.st # "corrupt")
       => \A i \in 1..Len(transactions) :
             /\ transactions[i].amount # NaN /\ transactions[i].amount > 0
             /\ Strip(transactions[i].name) # <<>>
             /\ transactions[i].type \in {"receive", "send"}

(***************************************************************************)
(* C16                                                                     *)
(***************************************************************************)
\* C16: whatever removes, adds, searches and timer reloads run between
\* show_form(index_to_edit=k) and the submit, the record the submit replaces is
\* the record whose values show_form loaded into the form, and nothing is
\* replaced when that record is no longer in the list: editing_index is never
\* applied to another record.
C16_EditReplacesOpenedRecord ==
    [][(pc = "idle" /\ pc' = "updated")
          => IF call'.target # -1
             THEN /\ opened # <<>>
                  /\ transactions[call'.target + 1] = opened[1]
             ELSE \A i \in 1..Len(transactions) : <<transactions[i]>> # opened]_vars

(***************************************************************************)
(* C17                                                                     *)
(***************************************************************************)
\* the type of transaction_data is the fallback "receive": no form type, and
\* neither the view index nor the raw index resolves to a canonical record
TypeFallback ==
    /\ form_type = "None"
    /\ ~(/\ QueryActive(search_text)
         /\ editing_index # None
         /\ InRange(get_original_index(transactions, filtered_transactions, editing_index),
                    transactions))
    /\ ~(editing_index # None /\ InRange(editing_index, transactions))

\* C17: whenever submit_transaction replaces a record of the canonical list, with
\* or without an active query, the type it writes is the type the replaced record
\* had immediately before; and when the type is the fallback "receive" no record
\* is replaced.
C17_EditKeepsType ==
    [][(pc = "idle" /\ pc' = "updated")
          => /\ call'.target # -1
                => /\ transactions'[call'.target + 1] = call'.tx
                   /\ call'.tx.type = transactions[call'.target + 1].type
             /\ TypeFallback => (call'.target = -1 /\ transactions' = transactions)]_vars

\* under an active query, row 0 of the view has been edited: it is canonical
\* record 1, of type "send", and "send" is the type written
C17_Witness ==
    /\ pc = "updated"
    /\ call.query
    /\ call.idx = 0
    /\ call.target = 1
    /\ call.pre[2].type = "send"
    /\ call.pre[1].type = "receive"
    /\ transactions[2] = call.tx
    /\ call.tx.type = "send"

=============================================================================
